---- MODULE Spec2Model ----
(***************************************************************************)
(* Model of the device-info lookup service in src/src/main.rs:             *)
(* DevDB::get_device_info loops over the requested device names and calls  *)
(* DevDB::query_device for each; query_device pulls a stream of scaling    *)
(* rows, then a stream of digital-control rows, and builds one InfoEntry.  *)
(* The data store is the environment: each pull of a row stream yields a   *)
(* row, a failure, or the end of the stream.                               *)
(***************************************************************************)
EXTENDS Integers, Sequences, FiniteSets, TLC

\* ------------------------------------------------------------------ bounds

\* Longest device list in a request.
MaxDevices == 2

\* Most stream items (rows or failures) the data store yields while one
\* request is handled.
MaxRows == 4

\* ------------------------------------------------------- values of the model

\* Device names a caller may ask for.
Names == {"DEV_A", "DEV_B"}

\* Option<T>: None, Some(x).
None == <<>>

Some(x) == <<x>>

\* RowInfo values the scaling query can yield: the query only returns
\* property indexes 12 and 13; di is an i32 and may be negative.
ScalingRows ==
    { [di |-> 7,  pi |-> 12, descr |-> "d7", p_units |-> "V",  c_units |-> "kV"],
      [di |-> 7,  pi |-> 13, descr |-> "d7", p_units |-> "V",  c_units |-> "A"],
      [di |-> -1, pi |-> 13, descr |-> "dx", p_units |-> "mV", c_units |-> "mA"] }

\* (i32, String, String) tuples the digital-control query can yield.
ControlRows ==
    { [value |-> 1,  short_name |-> "On",  long_name |-> "Turn on"],
      [value |-> -2, short_name |-> "Off", long_name |-> "Turn off"] }

\* sqlx::Error values a row stream can yield: a row that cannot be decoded,
\* or a connection to the data store that cannot be used.
Errors == {"Decode", "Io"}

\* format!("{}", e)
Display(e) ==
    IF e = "Decode" THEN "error occurred while decoding"
                    ELSE "error communicating with database"

\* Items of a row stream, as the ghost history records them.
Ok(row) == [ok |-> TRUE, row |-> row]

Err(e) == [ok |-> FALSE, err |-> e]

\* All sequences over S of length at most n.
BoundedSeq(S, n) == UNION { [1..k -> S] : k \in 0..n }

\* A u32, held exactly as two 16-bit halves (hi * 65536 + lo): TLC's
\* integers are 32-bit signed and cannot hold values from 2^31 up.
U32(n) == [hi |-> n \div 65536, lo |-> n % 65536]

\* `v as u32` for an i32 v: the value modulo 2^32.
ToU32(v) == [hi |-> (v \div 65536) % 65536, lo |-> v % 65536]

\* ------------------------------------------------------------------- state

VARIABLES
    device,       \* request.get_ref().device: the requested names
    pc,           \* where get_device_info / query_device stands
    pos,          \* position of `item` in the for loop (1-based)
    result,       \* the vector of entries built so far
    reply,        \* what get_device_info returned
    index,        \* query_device locals
    description,
    r_prop,
    s_prop,
    cmds,
    s_rows,       \* ghost: items pulled from the scaling stream, this device
    c_rows,       \* ghost: items pulled from the control stream, this device
    s_issued,     \* ghost: scaling queries issued, per request position
    c_issued,     \* ghost: control queries issued, per request position
    pulled,       \* ghost: stream items yielded so far in this request
    conn_failed   \* ghost: some stream reported a connection failure

vars == <<device, pc, pos, result, reply, index, description, r_prop, s_prop,
          cmds, s_rows, c_rows, s_issued, c_issued, pulled, conn_failed>>

locals == <<index, description, r_prop, s_prop>>

\* --------------------------------------------------- query_device, the data

\* Property { primary_units, common_units } of a row.
MkProperty(row) ==
    [primary_units |-> Some(row.p_units), common_units |-> Some(row.c_units)]

FoldRowFirstWins(acc, row) ==
    [index       |-> IF acc.r_prop = None /\ acc.s_prop = None
                     THEN ToU32(row.di) ELSE acc.index,
     description |-> IF acc.r_prop = None /\ acc.s_prop = None
                     THEN row.descr ELSE acc.description,
     r_prop      |-> IF row.pi = 12 /\ acc.r_prop = None
                     THEN Some(MkProperty(row)) ELSE acc.r_prop,
     s_prop      |-> IF row.pi # 12 /\ acc.s_prop = None
                     THEN Some(MkProperty(row)) ELSE acc.s_prop]

FoldRowBoth(acc, row) ==
    [index       |-> ToU32(row.di),
     description |-> row.descr,
     r_prop      |-> Some(MkProperty(row)),
     s_prop      |-> IF row.pi = 12 THEN acc.s_prop ELSE Some(MkProperty(row))]

\* The Ok(row) arm of the scaling loop.
FoldRow(acc, row) ==
    [index       |-> ToU32(row.di),
     description |-> row.descr,
     r_prop      |-> IF row.pi = 12 THEN Some(MkProperty(row)) ELSE acc.r_prop,
     s_prop      |-> IF row.pi = 12 THEN acc.s_prop ELSE Some(MkProperty(row))]

\* DigitalControlItem built from one control row.
MkItem(row) ==
    [value      |-> ToU32(row.value),
     short_name |-> row.short_name,
     long_name  |-> row.long_name]

PushCmdFront(v, row) == <<MkItem(row)>> \o v

\* cmds.push(DigitalControlItem { .. })
PushCmd(v, row) == Append(v, MkItem(row))

KeepCmds(v) == v

\* cmds.clear() in the Err arm of the control loop.
ClearCmds(v) == <<>>

DigControlAlways(v) == Some([cmds |-> v])

\* dig_control: None when cmds is empty, else Some(DigitalControl { cmds }).
DigControl(v) == IF v = <<>> THEN None ELSE Some([cmds |-> v])

\* The entry returned from the Err arm of the scaling loop.
ErrEntry(item, e) ==
    [name |-> item, result |-> Some([variant |-> "ErrMsg", err_msg |-> Display(e)])]

\* The final value of query_device.
DeviceEntry(item, acc, v) ==
    [name   |-> item,
     result |-> Some([variant |-> "Device",
                      device  |-> [index       |-> acc.index,
                                   description |-> acc.description,
                                   reading     |-> acc.r_prop,
                                   setting     |-> acc.s_prop,
                                   dig_control |-> DigControl(v)]])]

Acc == [index |-> index, description |-> description,
        r_prop |-> r_prop, s_prop |-> s_prop]

\* ------------------------------------------------------------------ actions

Init ==
    /\ device \in BoundedSeq(Names, MaxDevices)
    /\ pc = "loop"
    /\ pos = 1
    /\ result = <<>>
    /\ reply = [variant |-> "Pending"]
    /\ index = U32(0)
    /\ description = ""
    /\ r_prop = None
    /\ s_prop = None
    /\ cmds = <<>>
    /\ s_rows = <<>>
    /\ c_rows = <<>>
    /\ s_issued = [i \in 1..Len(device) |-> 0]
    /\ c_issued = [i \in 1..Len(device) |-> 0]
    /\ pulled = 0
    /\ conn_failed = FALSE

\* The for loop takes the next item and query_device starts: it builds the
\* scaling query, binds the name and initialises its locals.
IssueScaling ==
    /\ pc = "loop"
    /\ pos <= Len(device)
    /\ pc' = "scaling"
    /\ index' = U32(0)
    /\ description' = ""
    /\ r_prop' = None
    /\ s_prop' = None
    /\ s_rows' = <<>>
    /\ c_rows' = <<>>
    /\ s_issued' = [s_issued EXCEPT ![pos] = @ + 1]
    /\ UNCHANGED <<device, pos, result, reply, cmds, c_issued, pulled, conn_failed>>

\* sql_cmd.next() yields Ok(row): the row is folded into the locals.
ScalingOk ==
    /\ pc = "scaling"
    /\ pulled < MaxRows
    /\ \E row \in ScalingRows :
         LET a == FoldRow(Acc, row) IN
         /\ index' = a.index
         /\ description' = a.description
         /\ r_prop' = a.r_prop
         /\ s_prop' = a.s_prop
         /\ s_rows' = Append(s_rows, Ok(row))
    /\ pulled' = pulled + 1
    /\ UNCHANGED <<device, pc, pos, result, reply, cmds, c_rows, s_issued,
                   c_issued, conn_failed>>

ScalingErrDrop ==
    /\ pc = "scaling"
    /\ pulled < MaxRows
    /\ \E e \in Errors :
         /\ s_rows' = Append(s_rows, Err(e))
         /\ conn_failed' = (conn_failed \/ e = "Io")
    /\ pos' = pos + 1
    /\ pc' = "loop"
    /\ pulled' = pulled + 1
    /\ UNCHANGED <<device, result, reply, locals, cmds, c_rows, s_issued, c_issued>>

ScalingErrContinue ==
    /\ pc = "scaling"
    /\ pulled < MaxRows
    /\ \E e \in Errors :
         /\ s_rows' = Append(s_rows, Err(e))
         /\ conn_failed' = (conn_failed \/ e = "Io")
    /\ pc' = "control"
    /\ cmds' = <<>>
    /\ c_issued' = [c_issued EXCEPT ![pos] = @ + 1]
    /\ pulled' = pulled + 1
    /\ UNCHANGED <<device, pos, result, reply, locals, c_rows, s_issued>>

ScalingErrAbort ==
    /\ pc = "scaling"
    /\ pulled < MaxRows
    /\ \E e \in Errors :
         /\ s_rows' = Append(s_rows, Err(e))
         /\ conn_failed' = (conn_failed \/ e = "Io")
         /\ result' = Append(result, ErrEntry(device[pos], e))
    /\ pos' = Len(device) + 1
    /\ pc' = "loop"
    /\ pulled' = pulled + 1
    /\ UNCHANGED <<device, reply, locals, cmds, c_rows, s_issued, c_issued>>

\* sql_cmd.next() yields Err(e): query_device returns the error entry at
\* once, and the for loop pushes it and moves on.
ScalingErr ==
    /\ pc = "scaling"
    /\ pulled < MaxRows
    /\ \E e \in Errors :
         /\ s_rows' = Append(s_rows, Err(e))
         /\ conn_failed' = (conn_failed \/ e = "Io")
         /\ result' = Append(result, ErrEntry(device[pos], e))
    /\ pos' = pos + 1
    /\ pc' = "loop"
    /\ pulled' = pulled + 1
    /\ UNCHANGED <<device, reply, locals, cmds, c_rows, s_issued, c_issued>>

\* sql_cmd.next() yields None: the scaling loop ends and the digital-control
\* query is built and bound.
ScalingEnd ==
    /\ pc = "scaling"
    /\ pc' = "control"
    /\ cmds' = <<>>
    /\ c_issued' = [c_issued EXCEPT ![pos] = @ + 1]
    /\ UNCHANGED <<device, pos, result, reply, locals, s_rows, c_rows, s_issued,
                   pulled, conn_failed>>

\* The control stream yields Ok(row): one item is pushed.
ControlOk ==
    /\ pc = "control"
    /\ pulled < MaxRows
    /\ \E row \in ControlRows :
         /\ cmds' = PushCmd(cmds, row)
         /\ c_rows' = Append(c_rows, Ok(row))
    /\ pulled' = pulled + 1
    /\ UNCHANGED <<device, pc, pos, result, reply, locals, s_rows, s_issued,
                   c_issued, conn_failed>>

ControlErrFails ==
    /\ pc = "control"
    /\ pulled < MaxRows
    /\ \E e \in Errors :
         /\ c_rows' = Append(c_rows, Err(e))
         /\ conn_failed' = (conn_failed \/ e = "Io")
         /\ result' = Append(result, ErrEntry(device[pos], e))
    /\ cmds' = ClearCmds(cmds)
    /\ pos' = pos + 1
    /\ pc' = "loop"
    /\ pulled' = pulled + 1
    /\ UNCHANGED <<device, reply, locals, s_rows, s_issued, c_issued>>

\* The control stream yields Err(e): cmds is cleared, the loop breaks, and
\* query_device returns the Device entry, which the for loop pushes.
ControlErr ==
    /\ pc = "control"
    /\ pulled < MaxRows
    /\ \E e \in Errors :
         /\ c_rows' = Append(c_rows, Err(e))
         /\ conn_failed' = (conn_failed \/ e = "Io")
    /\ cmds' = ClearCmds(cmds)
    /\ result' = Append(result, DeviceEntry(device[pos], Acc, cmds'))
    /\ pos' = pos + 1
    /\ pc' = "loop"
    /\ pulled' = pulled + 1
    /\ UNCHANGED <<device, reply, locals, s_rows, s_issued, c_issued>>

\* The control stream yields None: query_device returns the Device entry,
\* which the for loop pushes.
ControlEnd ==
    /\ pc = "control"
    /\ result' = Append(result, DeviceEntry(device[pos], Acc, cmds))
    /\ pos' = pos + 1
    /\ pc' = "loop"
    /\ UNCHANGED <<device, reply, locals, cmds, s_rows, c_rows, s_issued,
                   c_issued, pulled, conn_failed>>

ReplyFailsOnConn ==
    /\ pc = "loop"
    /\ pos > Len(device)
    /\ reply' = IF conn_failed THEN [variant |-> "Err"]
                               ELSE [variant |-> "Ok", set |-> result]
    /\ pc' = "done"
    /\ UNCHANGED <<device, pos, result, locals, cmds, s_rows, c_rows, s_issued,
                   c_issued, pulled, conn_failed>>

\* The for loop is over: Ok(Response::new(DeviceInfoReply { set: result })).
Reply ==
    /\ pc = "loop"
    /\ pos > Len(device)
    /\ reply' = [variant |-> "Ok", set |-> result]
    /\ pc' = "done"
    /\ UNCHANGED <<device, pos, result, locals, cmds, s_rows, c_rows, s_issued,
                   c_issued, pulled, conn_failed>>

Next ==
    \/ IssueScaling
    \/ ScalingOk
    \/ ScalingErr
    \/ ScalingEnd
    \/ ControlOk
    \/ ControlErr
    \/ ControlEnd
    \/ Reply

Spec == Init /\ [][Next]_vars

\* ------------------------------------------------- reading the ghost history

\* A stream history holds a failure.
Failed(h) == \E i \in 1..Len(h) : ~h[i].ok

Max(S) == CHOOSE x \in S : \A y \in S : y <= x

\* Positions of the rows of a history with property index 12, and with any
\* other property index.
Idx12(h) == { i \in 1..Len(h) : h[i].ok /\ h[i].row.pi = 12 }

IdxOther(h) == { i \in 1..Len(h) : h[i].ok /\ h[i].row.pi # 12 }

\* The u32 whose value is n + 2^32, for a negative i32 n.
Plus2Pow32(n) == [hi |-> (n \div 65536) + 65536, lo |-> n % 65536]

\* The u32 u has the value of the integer n.
SameNumber(u, n) == n >= 0 /\ u = U32(n)

\* The u32 u has the value of n modulo 2^32.
SameMod2Pow32(u, n) == IF n >= 0 THEN u = U32(n) ELSE u = Plus2Pow32(n)

\* The unit pair of a scaling row, as a Property.
UnitPair(row) ==
    [primary_units |-> <<row.p_units>>, common_units |-> <<row.c_units>>]

\* The device whose streams s_rows and c_rows record has been resolved and
\* its entry is the last one of result.
Resolved == pc \in {"loop", "done"} /\ pos > 1 /\ Len(result) = pos - 1

LastEntry == result[Len(result)]

IsErrMsg(e) == Len(e.result) = 1 /\ e.result[1].variant = "ErrMsg"

IsDevice(e) == Len(e.result) = 1 /\ e.result[1].variant = "Device"

DeviceOf(e) == e.result[1].device

\* The scaling state folded from a history of rows, from the initial locals.
RECURSIVE Folded(_)
Folded(h) ==
    IF h = <<>>
    THEN [index |-> U32(0), description |-> "", r_prop |-> None, s_prop |-> None]
    ELSE FoldRow(Folded(SubSeq(h, 1, Len(h) - 1)), h[Len(h)].row)

\* ------------------------------------------------------------------- claims

\* C1: a returned reply has exactly one entry per input name: the same
\* length as the input, entry i carrying the name at input position i; while
\* the loop runs, the entries built so far are those of the names already
\* resolved.
C1_OneEntryPerName ==
    /\ pc = "loop" => Len(result) = pos - 1
    /\ \A i \in 1..Len(result) : i <= Len(device) /\ result[i].name = device[i]
    /\ pc = "done" =>
         /\ reply.variant = "Ok"
         /\ Len(reply.set) = Len(device)
         /\ \A i \in 1..Len(device) : reply.set[i].name = device[i]

\* C1 witness: a reply for a list with a duplicated name whose first device
\* failed and whose second did not.
C1_Witness ==
    /\ pc = "done"
    /\ Len(device) = 2
    /\ device[1] = device[2]
    /\ Len(reply.set) = 2
    /\ IsErrMsg(reply.set[1])
    /\ IsDevice(reply.set[2])

\* C2: the entry of a resolved device is the ErrMsg variant exactly when its
\* scaling stream yielded a failure, whatever its control stream did, and
\* exactly one of the two variants is populated.
C2_ErrMsgIffScalingFailed ==
    (pc \in {"loop", "done"} /\ pos > 1) =>
        /\ Len(result) = pos - 1
        /\ Len(LastEntry.result) = 1
        /\ LastEntry.result[1].variant \in {"ErrMsg", "Device"}
        /\ IsErrMsg(LastEntry) <=> Failed(s_rows)
        /\ IsDevice(LastEntry) <=> ~Failed(s_rows)

\* C2 witness: a device whose control stream failed after its scaling stream
\* ended without failure, resolved to a Device entry.
C2_Witness ==
    /\ Resolved
    /\ ~Failed(s_rows)
    /\ Failed(c_rows)
    /\ IsDevice(LastEntry)

\* C3 as stated: once a row stream has reported a connection failure, the
\* call ends in a failure and returns no reply.
C3_ConnFailureIsBatchFatal ==
    (pc = "done" /\ conn_failed) => reply.variant # "Ok"

\* C3 as amended: a connection failure reported by a row stream is handled
\* per device. The call still returns a reply with one entry per name; a
\* connection failure of the scaling stream is that device's ErrMsg entry,
\* and one of the control stream leaves a Device entry with no control list.
C3_ConnFailureIsPerDevice ==
    /\ pc = "done" => (reply.variant = "Ok" /\ Len(reply.set) = Len(device))
    /\ (Resolved /\ Len(s_rows) > 0 /\ s_rows[Len(s_rows)] = Err("Io")) =>
         /\ IsErrMsg(LastEntry)
         /\ LastEntry.result[1].err_msg = Display("Io")
    /\ (Resolved /\ Len(c_rows) > 0 /\ c_rows[Len(c_rows)] = Err("Io")) =>
         /\ IsDevice(LastEntry)
         /\ DeviceOf(LastEntry).dig_control = None

\* C3 witness: a call that met a connection failure and returned a reply.
C3_Witness ==
    /\ pc = "done"
    /\ conn_failed
    /\ reply.variant = "Ok"
    /\ Len(reply.set) = 2

\* C4: the control list is all or nothing. For a device whose scaling stream
\* did not fail, dig_control is None when the control stream had no rows or
\* yielded a failure (the items collected before it are not surfaced), and
\* otherwise holds one item for every row; when the control stream failed,
\* index, description, reading and setting are those folded from the scaling
\* rows.
C4_ControlAllOrNothing ==
    (Resolved /\ ~Failed(s_rows)) =>
        /\ IsDevice(LastEntry)
        /\ (c_rows = <<>> \/ Failed(c_rows)) =>
             DeviceOf(LastEntry).dig_control = None
        /\ (c_rows # <<>> /\ ~Failed(c_rows)) =>
             /\ Len(DeviceOf(LastEntry).dig_control) = 1
             /\ DeviceOf(LastEntry).dig_control[1].cmds =
                    [i \in 1..Len(c_rows) |-> MkItem(c_rows[i].row)]
        /\ Failed(c_rows) =>
             /\ DeviceOf(LastEntry).index = Folded(s_rows).index
             /\ DeviceOf(LastEntry).description = Folded(s_rows).description
             /\ DeviceOf(LastEntry).reading = Folded(s_rows).r_prop
             /\ DeviceOf(LastEntry).setting = Folded(s_rows).s_prop

\* C4 witness: a device with a scaling row whose control stream yielded two
\* rows and then a failure; it has a reading and no control list.
C4_Witness ==
    /\ Resolved
    /\ ~Failed(s_rows)
    /\ Len(c_rows) = 3
    /\ c_rows[1].ok /\ c_rows[2].ok /\ ~c_rows[3].ok
    /\ IsDevice(LastEntry)
    /\ DeviceOf(LastEntry).reading # None
    /\ DeviceOf(LastEntry).dig_control = None

\* C5: once the scaling stream has yielded a failure, query_device has
\* returned the ErrMsg entry: the failure is the last item pulled from the
\* scaling stream, and the control query was not issued for that device.
C5_ScalingFailureReturnsAtOnce ==
    Failed(s_rows) =>
        /\ pc \in {"loop", "done"}
        /\ pos > 1
        /\ \A i \in 1..Len(s_rows) : s_rows[i].ok <=> i < Len(s_rows)
        /\ c_issued[pos - 1] = 0
        /\ c_rows = <<>>
        /\ Len(result) = pos - 1
        /\ IsErrMsg(LastEntry)

\* C5 witness: a device whose scaling stream yielded a row and then failed.
C5_Witness ==
    /\ Len(s_rows) = 2
    /\ s_rows[1].ok
    /\ ~s_rows[2].ok
    /\ Resolved
    /\ IsErrMsg(LastEntry)
    /\ c_issued[pos - 1] = 0

\* C6 as stated: after a failure-free sequence of scaling rows, index and
\* description equal those of the last row, reading is the unit pair of the
\* last row with property index 12 and setting that of the last other row.
C6_LastRowWins ==
    (~Failed(s_rows) /\ s_rows # <<>>) =>
        /\ SameNumber(index, s_rows[Len(s_rows)].row.di)
        /\ description = s_rows[Len(s_rows)].row.descr
        /\ Idx12(s_rows) # {} =>
             r_prop = <<UnitPair(s_rows[Max(Idx12(s_rows))].row)>>
        /\ IdxOther(s_rows) # {} =>
             s_prop = <<UnitPair(s_rows[Max(IdxOther(s_rows))].row)>>

\* C6 as amended: the same, with index equal to the last row's device index
\* converted to an unsigned 32-bit integer (the index modulo 2^32, so equal to
\* it when it is not negative); the resolved entry carries these values.
C6_LastRowWinsMod2Pow32 ==
    (~Failed(s_rows) /\ s_rows # <<>>) =>
        /\ SameMod2Pow32(index, s_rows[Len(s_rows)].row.di)
        /\ s_rows[Len(s_rows)].row.di >= 0 =>
             SameNumber(index, s_rows[Len(s_rows)].row.di)
        /\ description = s_rows[Len(s_rows)].row.descr
        /\ Idx12(s_rows) # {} =>
             r_prop = <<UnitPair(s_rows[Max(Idx12(s_rows))].row)>>
        /\ IdxOther(s_rows) # {} =>
             s_prop = <<UnitPair(s_rows[Max(IdxOther(s_rows))].row)>>
        /\ Resolved =>
             /\ IsDevice(LastEntry)
             /\ DeviceOf(LastEntry).index = index
             /\ DeviceOf(LastEntry).description = description
             /\ DeviceOf(LastEntry).reading = r_prop
             /\ DeviceOf(LastEntry).setting = s_prop

\* C6 witness: a device with two scaling rows of property index 13 that differ
\* in their units; its setting is the unit pair of the second.
C6_Witness ==
    /\ Resolved
    /\ Len(s_rows) = 2
    /\ s_rows[1].ok /\ s_rows[2].ok
    /\ s_rows[1].row.pi = 13 /\ s_rows[2].row.pi = 13
    /\ s_rows[1].row.c_units # s_rows[2].row.c_units
    /\ IsDevice(LastEntry)
    /\ DeviceOf(LastEntry).setting = <<UnitPair(s_rows[2].row)>>

\* C7 as stated: a control stream that yields at least one row and no failure
\* gives a control list with one item per row, in the order of the rows, each
\* item's value, short name and long name equal to those of its row.
C7_ItemsEqualRows ==
    (Resolved /\ ~Failed(s_rows) /\ ~Failed(c_rows) /\ c_rows # <<>>) =>
        /\ IsDevice(LastEntry)
        /\ Len(DeviceOf(LastEntry).dig_control) = 1
        /\ Len(DeviceOf(LastEntry).dig_control[1].cmds) = Len(c_rows)
        /\ \A i \in 1..Len(c_rows) :
             LET item == DeviceOf(LastEntry).dig_control[1].cmds[i] IN
             /\ SameNumber(item.value, c_rows[i].row.value)
             /\ item.short_name = c_rows[i].row.short_name
             /\ item.long_name = c_rows[i].row.long_name

\* C7 as amended: the same, with each item's value equal to its row's value
\* converted to an unsigned 32-bit integer (the value modulo 2^32, so equal to
\* it when it is not negative).
C7_ItemsEqualRowsMod2Pow32 ==
    (Resolved /\ ~Failed(s_rows) /\ ~Failed(c_rows) /\ c_rows # <<>>) =>
        /\ IsDevice(LastEntry)
        /\ Len(DeviceOf(LastEntry).dig_control) = 1
        /\ Len(DeviceOf(LastEntry).dig_control[1].cmds) = Len(c_rows)
        /\ \A i \in 1..Len(c_rows) :
             LET item == DeviceOf(LastEntry).dig_control[1].cmds[i] IN
             /\ SameMod2Pow32(item.value, c_rows[i].row.value)
             /\ c_rows[i].row.value >= 0 =>
                  SameNumber(item.value, c_rows[i].row.value)
             /\ item.short_name = c_rows[i].row.short_name
             /\ item.long_name = c_rows[i].row.long_name

\* C7 witness: a device whose control stream yielded three rows, not all the
\* same, and its control list of three items.
C7_Witness ==
    /\ Resolved
    /\ ~Failed(s_rows)
    /\ Len(c_rows) = 3
    /\ ~Failed(c_rows)
    /\ c_rows[1] # c_rows[2]
    /\ IsDevice(LastEntry)
    /\ Len(DeviceOf(LastEntry).dig_control[1].cmds) = 3

\* C8: a device for which both queries return no rows resolves to the Device
\* variant with index 0, an empty description, and no reading, setting or
\* control list.
C8_NoRowsIsNotAnError ==
    (Resolved /\ s_rows = <<>> /\ c_rows = <<>>) =>
        /\ IsDevice(LastEntry)
        /\ DeviceOf(LastEntry).index = U32(0)
        /\ DeviceOf(LastEntry).description = ""
        /\ DeviceOf(LastEntry).reading = None
        /\ DeviceOf(LastEntry).setting = None
        /\ DeviceOf(LastEntry).dig_control = None

\* C8 witness: a device resolved with no rows from either query.
C8_Witness ==
    /\ Resolved
    /\ s_rows = <<>>
    /\ c_rows = <<>>
    /\ c_issued[pos - 1] = 1
    /\ IsDevice(LastEntry)

\* C9, the state part: after a failure-free sequence of scaling rows, reading
\* is Some exactly when a row had property index 12 and setting is Some
\* exactly when a row had another property index, in the locals and in the
\* resolved entry.
C9_Presence ==
    ~Failed(s_rows) =>
        /\ r_prop # None <=> Idx12(s_rows) # {}
        /\ s_prop # None <=> IdxOther(s_rows) # {}
        /\ Resolved =>
             /\ IsDevice(LastEntry)
             /\ DeviceOf(LastEntry).reading # None <=> Idx12(s_rows) # {}
             /\ DeviceOf(LastEntry).setting # None <=> IdxOther(s_rows) # {}

\* C9, the step part: folding a row sets the property of its own kind and
\* leaves the property of the other kind as it was.
C9_RowStep ==
    (pc = "scaling" /\ Len(s_rows') = Len(s_rows) + 1 /\ s_rows'[Len(s_rows')].ok) =>
        IF s_rows'[Len(s_rows')].row.pi = 12
        THEN r_prop' # None /\ s_prop' = s_prop
        ELSE s_prop' # None /\ r_prop' = r_prop

\* C9: reading and setting are present exactly for the kinds of rows seen, and
\* a row never changes the property of the other kind.
C9_ReadingSettingByKind == [](C9_Presence) /\ [][C9_RowStep]_vars

\* C9 witness: a device with the single scaling row of property index 12; it
\* has a reading and no setting.
C9_Witness ==
    /\ Resolved
    /\ Len(s_rows) = 1
    /\ s_rows[1].ok
    /\ s_rows[1].row.pi = 12
    /\ IsDevice(LastEntry)
    /\ DeviceOf(LastEntry).reading # None
    /\ DeviceOf(LastEntry).setting = None

\* C10: no retries. Every position of the request has its scaling query
\* issued at most once and its control query at most once; a resolved position
\* had its scaling query issued exactly once, and its control query exactly
\* once when its entry is a Device and never when it is an ErrMsg; positions
\* not yet reached have no query issued; and when the call is done every
\* position has been resolved, whatever failed before it.
C10_NoRetries ==
    /\ \A i \in 1..Len(device) :
         /\ s_issued[i] <= 1
         /\ c_issued[i] <= 1
         /\ c_issued[i] <= s_issued[i]
         /\ i > pos => s_issued[i] = 0
         /\ i < pos =>
              /\ s_issued[i] = 1
              /\ i <= Len(result)
              /\ IsDevice(result[i]) <=> c_issued[i] = 1
              /\ IsErrMsg(result[i]) <=> c_issued[i] = 0
    /\ pc = "done" =>
         /\ pos = Len(device) + 1
         /\ \A i \in 1..Len(device) : s_issued[i] = 1
         /\ Len(reply.set) = Len(device)

\* C10 witness: a call of two names whose first device failed in its scaling
\* query; the second name's queries were issued and it has its entry.
C10_Witness ==
    /\ pc = "done"
    /\ Len(device) = 2
    /\ Len(result) = 2
    /\ IsErrMsg(result[1])
    /\ s_issued = <<1, 1>>
    /\ c_issued = <<0, 1>>
    /\ IsDevice(result[2])

====
